---- MODULE Spec2Model ----
(***************************************************************************)
(* Model of the Odin level 0 import: the block reader and the AC / FBA /   *)
(* SHK / attitude decoders of import_l0/handler, import_file's staging,    *)
(* dedup and merge against the level 0 tables, and the routing of its      *)
(* result by the import state machine of stacks/level0_stack.py.           *)
(***************************************************************************)
EXTENDS Integers, Sequences, FiniteSets, TLC

\* ------------------------------------------------------------------ bounds
MaxStw == 2          \* raw spacecraft time words are drawn from 1..MaxStw
MaxRecs == 2         \* records (spectra, phases, attitude lines) per file
MaxImports == 2      \* executions of the import workflow in one behaviour
MaxSpectra == 2      \* spectra of an AC stream decoded on its own
MaxLines == 3        \* data lines of an attitude file parsed on its own
MaxSegs == 3         \* header blocks of a block stream read on its own

\* ------------------------------------------------------- program constants
SYNC == 11219        \* 0x2BD3, the framing constant
USER_SHK == 29484    \* 0x732C
USER_FBA == 29676    \* 0x73EC
USER_AOS == 29536    \* 0x7360
USER_AC1 == 29568    \* 0x7380
USER_AC2 == 29616    \* 0x73B0
NSub == 12           \* sub-blocks read after an AC spectrum header
CloseTicks == 17     \* closeness threshold of getATT
SENTINEL == 9999     \* integration time of an unusable spectrum
TenE6 == 10000000    \* 10.0e6, the divisor of ACfile.IntTime
ModeMask == 255      \* 0x00FF, the mask of ACfile.Mode
NChips == 8          \* correlator chips, "for i in range(8)" of get_seq

Tables == {"ac_level0", "fba_level0", "attitude_level0", "shk_level0"}
STWs == 1..MaxStw

Min(S) == CHOOSE x \in S : \A y \in S : x <= y
Max(S) == CHOOSE x \in S : \A y \in S : x >= y

RECURSIVE SeqsUpTo(_, _)
SeqsUpTo(S, n) ==
    IF n = 0 THEN {<<>>}
    ELSE LET shorter == SeqsUpTo(S, n - 1)
         IN  shorter \cup {Append(s, x) : s \in {t \in shorter : Len(t) = n - 1}, x \in S}

\* ------------------------------------------------------------------- files
\* A binary level 0 file: its extension, the type/user code of its header
\* blocks, the raw stw of each record it holds, the number of blocks missing
\* from its end (cut) and whether a fragment shorter than a block trails it.
\* An attitude file: its data lines (stw, error vector qe).
BinFile(ext, user, recs, cut, frag) ==
    [ext |-> ext, user |-> user, recs |-> recs, cut |-> cut, frag |-> frag, lines |-> <<>>]

AttFile(lines) ==
    [ext |-> "att", user |-> 0, recs |-> <<>>, cut |-> 0, frag |-> FALSE, lines |-> lines]

RecSeqs == SeqsUpTo(STWs, MaxRecs)

AcFiles ==
    {BinFile("ac1", USER_AC1, r, c, FALSE) : r \in RecSeqs, c \in {0}}
        \cup {BinFile("ac1", USER_AC1, r, 1, FALSE) : r \in RecSeqs \ {<<>>}}
        \cup {BinFile("ac2", USER_AC2, <<s>>, 0, FALSE) : s \in STWs}

FbaFiles == {BinFile("fba", USER_FBA, r, 0, FALSE) : r \in RecSeqs}

\* files of less than one block: a fragment that still holds the 4-word header
StubFiles == {BinFile("ac1", USER_AC1, <<>>, 0, TRUE), BinFile("fba", USER_FBA, <<>>, 0, TRUE)}

\* recognised extension, first header of another subsystem or of none
MismatchFiles ==
    {BinFile("ac1", USER_FBA, <<1>>, 0, FALSE),
     BinFile("fba", USER_AC1, <<1>>, 0, FALSE),
     BinFile("fba", USER_AC1 - 16, <<1>>, 0, FALSE)}

ShkFiles == {BinFile("shk", USER_SHK, <<1>>, 0, FALSE)}

UnknownFiles == {BinFile("xyz", USER_AC1, <<1>>, 0, FALSE)}

\* An stw of an attitude file runs up to 0x800000000, past the integers of
\* the checker: it is kept as two limbs, stw = hi * 2^16 + lo.
Base == 65536
Stw(hi, lo) == [hi |-> hi, lo |-> lo]
AttLines == [stw : {Stw(0, s) : s \in STWs}, qe : {<<0, 0, 0>>}]
AttFiles == {AttFile(l) : l \in SeqsUpTo(AttLines, MaxRecs)}

Files == AcFiles \cup FbaFiles \cup StubFiles \cup MismatchFiles \cup ShkFiles
            \cup UnknownFiles \cup AttFiles

\* ------------------------------------------------------------ block reader
\* user & 0xFFF0
Mask(user) == user - (user % 16)

\* Level0File.__init__: the subsystem type derived from the first header
FileType(user) ==
    IF user = USER_SHK THEN "SHK"
    ELSE IF user = USER_FBA THEN "FBA"
    ELSE IF Mask(user) = USER_AOS THEN "AOS"
    ELSE IF Mask(user) = USER_AC1 THEN "AC1"
    ELSE IF Mask(user) = USER_AC2 THEN "AC2"
    ELSE "none"

\* The words of a block the decoders look at: the four header words (sync,
\* stw, user), a payload mark (val), the index word (words[-tail]) and, of
\* an AC spectrum header, the sample count (head[12]), the prescaler
\* (head[49]), the input word (head[36]) and the chopper word (head[8]).
Block(user, stw, val, h) ==
    [sync |-> SYNC, user |-> user, stw |-> stw, val |-> val, index |-> h.index,
     samples |-> h.samples, prescaler |-> h.prescaler, w36 |-> h.w36, chop |-> h.chop]

\* header words of a usable aeronomy spectrum: index valid with the
\* astronomy flag clear, prescaler 2, one sample, input channel 1
DefaultHdr == [index |-> 32768, samples |-> 1, prescaler |-> 2, w36 |-> 256, chop |-> 0]

HeadBlock(f, i) == Block(f.user, f.recs[i], i, DefaultHdr)

SubBlock(f, i, j) == Block(f.user + j, f.recs[i], 0, DefaultHdr)

\* The complete blocks of a file, in stream order: an AC record is a header
\* block followed by NSub sub-blocks, every other record is one block.
AllBlocks(f) ==
    IF FileType(f.user) \in {"AC1", "AC2"}
    THEN [k \in 1..(Len(f.recs) * (NSub + 1)) |->
            LET i == ((k - 1) \div (NSub + 1)) + 1
                j == (k - 1) % (NSub + 1)
            IN  IF j = 0 THEN HeadBlock(f, i) ELSE SubBlock(f, i, j)]
    ELSE [k \in 1..Len(f.recs) |-> HeadBlock(f, k)]

Blocks(f) ==
    LET all == AllBlocks(f)
    IN  IF f.cut >= Len(all) THEN <<>> ELSE SubSeq(all, 1, Len(all) - f.cut)

\* Level0File.__init__ and the subclass constructors: "ok" or the exception
\* raised.  want is the set of types the subclass accepts.
Level0File_init(f, want) ==
    IF Len(Blocks(f)) = 0 /\ ~f.frag THEN "struct.error"
    ELSE IF FileType(f.user) = "none" THEN "TypeError"
    ELSE IF Len(Blocks(f)) = 0 THEN "OSError"
    ELSE IF FileType(f.user) \notin want THEN "TypeError"
    ELSE "ok"

\* ACfile.__init__ / FBAfile.__init__: the header signature block0
Block0(f) ==
    IF FileType(f.user) = "AC1" THEN USER_AC1
    ELSE IF FileType(f.user) = "AC2" THEN USER_AC2
    ELSE USER_FBA

\* a reader that takes the bytes left at the end of the stream for a block
getBlockAnyLength(blocks, pos) == pos <= Len(blocks)

\* Level0File.getBlock at stream position pos (blocks consumed so far):
\* TRUE when a whole block is read, FALSE on a short read
getBlock(blocks, pos) == pos + 1 <= Len(blocks)

\* getAC's "for j in range(12)": TRUE when every sub-block after the header
\* at index h is read whole, FALSE when one of the reads is short (EOFError)
readSubBlocks(blocks, h) == \A j \in 1..NSub : getBlock(blocks, h + j - 1)

\* a header test that compares the user code masked with 0xFFF0
SignatureMasked(b, block0) == b.sync = SYNC /\ Mask(b.user) = block0

\* "self.sync == 0x2BD3 and self.user == self.block0"
Signature(b, block0) == b.sync = SYNC /\ b.user = block0

\* getSpectrumHead: index of the next block with the header signature,
\* 0 when the stream is exhausted first
getSpectrumHead(blocks, pos, block0) ==
    LET heads == {i \in (pos + 1)..Len(blocks) : Signature(blocks[i], block0)}
    IN  IF heads = {} THEN 0 ELSE Min(heads)

\* Level0File.getIndex on the block at stream position pos: the discipline
\* of the index word, "none" for None (short read or valid bit clear)
getIndex(blocks, pos) ==
    IF ~getBlock(blocks, pos) THEN "none"
    ELSE LET index == blocks[pos + 1].index
         IN  IF (index \div 32768) % 2 = 0 THEN "none"
             ELSE IF (index \div 16384) % 2 = 1 THEN "ASTR"
             ELSE "AERO"

\* ACfile.Frontend: "none" for None
Frontend(head) ==
    LET frontend == <<"549", "495", "572", "555", "SPL", "119">>
        input == (head.w36 \div 256) % 16
    IN  IF input \in 1..6 THEN frontend[input] ELSE "none"

\* ACfile.Type, for an instance of the given type
Type(head, type) ==
    LET rx == Frontend(head)
    IN  IF head.chop = 43690
        THEN IF rx \in {"495", "549"} THEN "REF"
             ELSE IF rx \in {"555", "572", "119"} THEN "SIG"
             ELSE IF rx = "SPL" THEN (IF type = "AC1" THEN "REF" ELSE "SIG")
             ELSE "NAN"
        ELSE IF rx \in {"495", "549"} THEN "SIG"
             ELSE IF rx \in {"555", "572", "119"} THEN "REF"
             ELSE IF rx = "SPL" THEN (IF type = "AC1" THEN "SIG" ELSE "REF")
             ELSE "NAN"

\* Times are fractions num / den of a second.
Time(num, den) == [num |-> num, den |-> den]

\* t == k for a time and an integer
TimeIs(t, k) == t.num % t.den = 0 /\ t.num \div t.den = k

\* an integration time that accepts every prescaler up to 14
IntTimeAnyPrescaler(head) ==
    IF head.prescaler <= 14
    THEN Time((head.samples % 65536) * (2 ^ (14 - head.prescaler)), TenE6)
    ELSE Time(0, 1)

\* ACfile.IntTime
IntTime(head) ==
    IF head.prescaler >= 2 /\ head.prescaler <= 6
    THEN Time((head.samples % 65536) * (2 ^ (14 - head.prescaler)), TenE6)
    ELSE Time(0, 1)

\* getAC: "if ac.IntTime(head) == 0: IntTime = 9999."
getAC_IntTime(head) ==
    IF TimeIs(IntTime(head), 0) THEN Time(SENTINEL, 1) ELSE IntTime(head)

\* ---------------------------------------------------------------- decoders
\* A decoded row before it is stamped: stw, the qualifier column (backend
\* for AC, channel for SHK, "-" where the table has none) and the payload.
Row(stw, qual, val) == [stw |-> stw, qual |-> qual, val |-> val]

Backend(block0) == IF block0 = USER_AC1 THEN "AC1" ELSE "AC2"

\* a filter that does not look at the discipline
KeepAnyDiscipline(inttime, discipline, frontend, sig_type) ==
    /\ ~TimeIs(inttime, SENTINEL)
    /\ frontend # "none"
    /\ sig_type # "problem"

\* the condition under which import_file writes a spectrum to the buffer
Keep(inttime, discipline, frontend, sig_type) ==
    /\ ~TimeIs(inttime, SENTINEL)
    /\ discipline = "AERO"
    /\ frontend # "none"
    /\ sig_type # "problem"

\* a getAC that leaves its reader on the header block
AfterSpectrumStay(h) == h - 1

\* the position of the first reader after getAC has read the header at h
\* and the NSub blocks that follow it
AfterSpectrum(h) == h + NSub

\* One iteration of the decode loop of import_file for .ac1/.ac2: getAC on
\* the first reader (position p1), getACdis on the second (position p2),
\* then the filter.  eof: EOFError from either reader ended the loop.  h and
\* h2 are the header blocks the readers took, row the record of getAC, keep
\* whether it is written to the buffer.
ACStep(blocks, p1, p2, block0) ==
    LET h == getSpectrumHead(blocks, p1, block0)
        h2 == getSpectrumHead(blocks, p2, block0)
    IN  IF h = 0 \/ ~readSubBlocks(blocks, h) \/ h2 = 0
        THEN [eof |-> TRUE, p1 |-> p1, p2 |-> p2, h |-> h, h2 |-> h2,
              keep |-> FALSE, row |-> Row(0, "-", 0)]
        ELSE LET index == getIndex(blocks, h2)
                 discipline == IF index = "none" THEN "Problem" ELSE index
             IN  [eof |-> FALSE,
                  p1 |-> AfterSpectrum(h),
                  p2 |-> IF getBlock(blocks, h2) THEN h2 + 1 ELSE h2,
                  h |-> h, h2 |-> h2,
                  keep |-> Keep(getAC_IntTime(blocks[h]), discipline,
                                Frontend(blocks[h]), Type(blocks[h], Backend(block0))),
                  row |-> Row(blocks[h].stw, Backend(block0), blocks[h].val)]

\* The decode loop of import_file for .ac1/.ac2, until EOFError
RECURSIVE ACLoop(_, _, _, _, _)
ACLoop(blocks, p1, p2, block0, rows) ==
    LET st == ACStep(blocks, p1, p2, block0)
    IN  IF st.eof THEN rows
        ELSE ACLoop(blocks, st.p1, st.p2, block0,
                    IF st.keep THEN Append(rows, st.row) ELSE rows)

\* One iteration of the decode loop of import_file for .fba: getFBA
FBAStep(blocks, pos, block0) ==
    LET h == getSpectrumHead(blocks, pos, block0)
    IN  IF h = 0
        THEN [eof |-> TRUE, p1 |-> pos, h |-> 0, row |-> Row(0, "-", 0)]
        ELSE [eof |-> FALSE, p1 |-> h, h |-> h,
              row |-> Row(blocks[h].stw, "-", blocks[h].val)]

\* The decode loop of import_file for .fba, until EOFError
RECURSIVE FBALoop(_, _, _, _)
FBALoop(blocks, pos, block0, rows) ==
    LET st == FBAStep(blocks, pos, block0)
    IN  IF st.eof THEN rows
        ELSE FBALoop(blocks, st.p1, block0, Append(rows, st.row))

\* the stw of a sample as one number
StwInt(x) == x.hi * Base + x.lo

\* a <= b on stw values
StwLE(a, b) == a.hi < b.hi \/ (a.hi = b.hi /\ a.lo <= b.lo)

\* b - a < n for a small n, on stw values
DiffLess(a, b, n) ==
    LET dh == b.hi - a.hi
    IN  IF dh < -1 THEN TRUE
        ELSE IF dh > 1 THEN FALSE
        ELSE dh * Base + (b.lo - a.lo) < n

\* the default stw0 and stw1 of AttitudeParser
ATT_STW0 == Stw(0, 0)
ATT_STW1 == Stw(524288, 0)      \* 0x800000000
InRange(stw) == StwLE(ATT_STW0, stw) /\ StwLE(stw, ATT_STW1)

\* "%08X" % stw as its characters, each one a hex digit value ('0'..'9' sort
\* before 'A'..'F', so characters compare as their values): eight digits,
\* nine from 0x100000000 on.
Key(stw) ==
    LET full == <<stw.hi \div 65536, (stw.hi \div 4096) % 16, (stw.hi \div 256) % 16,
                  (stw.hi \div 16) % 16, stw.hi % 16,
                  (stw.lo \div 4096) % 16, (stw.lo \div 256) % 16,
                  (stw.lo \div 16) % 16, stw.lo % 16>>
    IN  IF full[1] = 0 THEN Tail(full) ELSE full

\* a < b on strings, as python compares them
StrLess(a, b) ==
    \E k \in 1..Len(b) :
        /\ \A j \in 1..(k - 1) : j <= Len(a) /\ a[j] = b[j]
        /\ k > Len(a) \/ a[k] < b[k]

\* sum of squares of the three components of an error vector
Err(qe) == qe[1] * qe[1] + qe[2] * qe[2] + qe[3] * qe[3]

\* a parser that overwrites the entry on every collision
ReplacesAlways(e, t) == TRUE

\* On a colliding key, whether the new sample t replaces the entry e
Replaces(e, t) == e.qe # t.qe /\ Err(t.qe) < Err(e.qe)

\* AttitudeParser.__init__: the table after the scan of the data lines. An
\* entry stands for table[Key(stw)]; val is the number of the line it holds.
RECURSIVE AttitudeParser(_, _, _)
AttitudeParser(lines, i, table) ==
    IF i > Len(lines) THEN table
    ELSE LET t == [stw |-> lines[i].stw, qe |-> lines[i].qe, val |-> i]
             old == {e \in table : Key(e.stw) = Key(t.stw)}
             new == IF ~InRange(t.stw) THEN table
                    ELSE IF old = {} THEN table \cup {t}
                    ELSE IF \E e \in old : Replaces(e, t)
                         THEN (table \ old) \cup {t}
                         ELSE table
         IN  AttitudeParser(lines, i + 1, new)

\* sorted(tbl.keys()): the entries' stw in the order of their key strings
SortedKeys(table) ==
    LET ks == {e.stw : e \in table}
    IN  CHOOSE q \in [1..Cardinality(ks) -> ks] :
            \A a, b \in 1..Cardinality(ks) : a < b => StrLess(Key(q[a]), Key(q[b]))

Entry(table, k) == CHOOSE e \in table : e.stw = k

\* getATT's closeness pass over the sorted keys: i is the index of key1,
\* key0 the key it is compared with; returns the surviving table.
RECURSIVE ClosePass(_, _, _, _)
ClosePass(keys, i, key0, table) ==
    IF i > Len(keys) THEN table
    ELSE LET key1 == keys[i]
             e0 == Entry(table, key0)
             e1 == Entry(table, key1)
         IN  IF DiffLess(e0.stw, e1.stw, CloseTicks)
             THEN IF e0.qe # e1.qe
                  THEN IF Err(e1.qe) < Err(e0.qe)
                       THEN ClosePass(keys, i + 1, key1, table \ {e0})
                       ELSE ClosePass(keys, i + 1, key0, table \ {e1})
                  ELSE ClosePass(keys, i + 1, key0, table)
             ELSE ClosePass(keys, i + 1, key1, table)

\* getATT: the surviving samples of an attitude file, in the order of keys
getATT(lines) ==
    LET tbl == AttitudeParser(lines, 1, {})
        keys == SortedKeys(tbl)
        kept == IF Len(keys) = 0 THEN tbl ELSE ClosePass(keys, 2, keys[1], tbl)
    IN  SelectSeq([k \in 1..Len(keys) |-> Entry(tbl, keys[k])], LAMBDA e : e \in kept)

\* the rows import_file writes to the copy buffer for an attitude file
AttRows(lines) ==
    LET out == getATT(lines)
    IN  [k \in 1..Len(out) |-> Row(StwInt(out[k].stw), "-", out[k].val)]

\* getSHK: np.array(map(...)) is a 0-d object array holding the map object,
\* so adding 273.15 for "hot load A-side" raises TypeError for every stream,
\* before any row is built.
getSHK(blocks) == "TypeError"

\* What import_file has before it connects to the store: the exception that
\* ended it ("ok" if none, "unknown" for an unrecognised extension) and the
\* rows written to the copy buffer, in order.
Decode(f) ==
    IF f.ext \in {"ac1", "ac2"}
    THEN LET st == Level0File_init(f, {"AC1", "AC2"})
         IN  [status |-> st,
              rows |-> IF st = "ok" THEN ACLoop(Blocks(f), 0, 0, Block0(f), <<>>)
                       ELSE <<>>]
    ELSE IF f.ext = "fba"
    THEN LET st == Level0File_init(f, {"FBA"})
         IN  [status |-> st,
              rows |-> IF st = "ok" THEN FBALoop(Blocks(f), 0, Block0(f), <<>>)
                       ELSE <<>>]
    ELSE IF f.ext = "att"
    THEN [status |-> "ok", rows |-> AttRows(f.lines)]
    ELSE IF f.ext = "shk"
    THEN LET st == Level0File_init(f, {"SHK"})
         IN  [status |-> IF st = "ok" THEN getSHK(Blocks(f)) ELSE st, rows |-> <<>>]
    ELSE [status |-> "unknown", rows |-> <<>>]

TableOf(ext) ==
    IF ext \in {"ac1", "ac2"} THEN "ac_level0"
    ELSE IF ext = "fba" THEN "fba_level0"
    ELSE IF ext = "att" THEN "attitude_level0"
    ELSE "shk_level0"

\* ------------------------------------------------------------------ get_seq
\* ssb of get_seq, indexed from 1
ssb == <<1, -1, 1, -1, -1, 1, -1, 1>>

\* a chip loop in which every chip opens a band of its own
BandOfEveryChip(bit, i, m) == i

\* "if (mode & 1): m = i": the chip that opens the band chip i belongs to
BandOf(bit, i, m) == IF bit = 1 THEN i ELSE m

\* The first loop of get_seq: i is the chip, mode what is left of the
\* shifted mode word, m the chip that opened the current band; seq is
\* indexed 0..15 as in the source.
RECURSIVE CountLoop(_, _, _, _)
CountLoop(i, mode, m, seq) ==
    IF i = NChips THEN seq
    ELSE LET m1 == BandOf(mode % 2, i, m)
         IN  CountLoop(i + 1, mode \div 2, m1, [seq EXCEPT ![2 * m1] = @ + 1])

\* The second loop of get_seq: the sideband sign of every chip that opens a
\* band
SignLoop(seq) ==
    [k \in 0..(2 * NChips - 1) |->
        IF k % 2 = 0 THEN seq[k]
        ELSE LET i == (k - 1) \div 2
             IN  IF seq[2 * i] # 0
                 THEN (IF ssb[i + 1] < 0 THEN -1 ELSE 1)
                 ELSE 0]

\* a band loop that steps to the next chip whatever the band's length
NextBandByOne(ind, se) == ind + 2

\* "band = ind + 2 * se"
NextBand(ind, se) == ind + 2 * se

\* list(range(a, a + n))
Range(a, n) == [k \in 1..n |-> a + k - 1]

\* The third loop of get_seq, over enumerate(seq)
RECURSIVE BandLoop(_, _, _, _, _)
BandLoop(seq, ind, band, chips, band_start) ==
    IF ind = 2 * NChips THEN [chips |-> chips, band_start |-> band_start]
    ELSE IF ind = band
    THEN BandLoop(seq, ind + 1, NextBand(ind, seq[ind]),
                  Append(chips, Range(ind \div 2, seq[ind])),
                  Append(band_start, ind \div 2))
    ELSE BandLoop(seq, ind + 1, band, chips, band_start)

\* get_seq: seq, chips and band_start for a mode word
get_seq(mode) ==
    LET seq == SignLoop(CountLoop(0, 2 * mode + 1, 0, [k \in 0..(2 * NChips - 1) |-> 0]))
        bands == BandLoop(seq, 0, 0, <<>>, <<>>)
    IN  [seq |-> seq, chips |-> bands.chips, band_start |-> bands.band_start]

\* ------------------------------------------------- getAC: lags and monitors
\* x & 0xf and x & 0xf0000 for a value below 2^20
LowNibble(x) == x % 16
HighNibble(x) == x - (x % 65536)

\* "zlags = np.left_shift(lags64, 4) + np.bitwise_and(cc64[:, 0], 0xf)" for
\* one channel: lag is the channel's word of head[50:58], cc0 the first
\* element of its correlation row
zlags(lag, cc0) == lag * 16 + LowNibble(cc0)

\* a loop that rewrites the row of every channel
FixesEveryChannel(band_start, ind) == TRUE

\* "(band_start == ind).any()"
FixesChannel(band_start, ind) == \E k \in 1..Len(band_start) : band_start[k] = ind

\* The body of getAC's "for ind in range(8)" for channel ind: row holds
\* elements 0, 1 and 2 of the channel's correlation row
FixRow(band_start, ind, row, lag) ==
    IF FixesChannel(band_start, ind)
    THEN <<zlags(lag, row[1]), row[2], IF row[3] > 0 THEN row[3] - 65536 ELSE row[3]>>
    ELSE row

\* getAC's monitor unwrap for one monitor value mon of a channel with
\* zero-lag reference z: the value before scaling and the number of times
\* 0x10000 was added or subtracted
UnwrapMonitor(z, mon) ==
    LET m0 == HighNibble(z) + mon
        d == m0 - z
        overflow_mask == (IF d < 0 THEN -d ELSE d) > 32768
        down == overflow_mask /\ m0 > z
        m1 == IF down THEN m0 - 65536 ELSE m0
        up == overflow_mask /\ m1 < z
        m2 == IF up THEN m1 + 65536 ELSE m1
    IN  [mon64 |-> m2, before |-> m0,
         adjusted |-> (IF down THEN 1 ELSE 0) + (IF up THEN 1 ELSE 0)]

\* ---------------------------------------------------------- stw_correction
\* A file name is a sequence of characters.  Integers wider than 31 bits are
\* sequences of hexadecimal digits, most significant first.
HexLower == <<"0", "1", "2", "3", "4", "5", "6", "7", "8", "9",
              "a", "b", "c", "d", "e", "f">>
HexUpper == <<"0", "1", "2", "3", "4", "5", "6", "7", "8", "9",
              "A", "B", "C", "D", "E", "F">>

IsHex(c) == \E v \in 1..16 : HexLower[v] = c \/ HexUpper[v] = c

HexVal(c) == (CHOOSE v \in 1..16 : HexLower[v] = c \/ HexUpper[v] = c) - 1

\* os.path.basename: what follows the last "/"
basename(p) ==
    LET seps == {i \in 1..Len(p) : p[i] = "/"}
    IN  IF seps = {} THEN p ELSE SubSeq(p, Max(seps) + 1, Len(p))

\* os.path.splitext(...)[0] of a name without separators: the part before
\* the last ".", unless only dots precede it
splitext0(b) ==
    LET dots == {i \in 1..Len(b) : b[i] = "."}
    IN  IF dots = {} THEN b
        ELSE IF \E i \in 1..(Max(dots) - 1) : b[i] # "." THEN SubSeq(b, 1, Max(dots) - 1)
        ELSE b

\* int(s, 16): defined for a non-empty string of hexadecimal digits, a
\* ValueError otherwise
IsHexString(s) == Len(s) > 0 /\ \A i \in 1..Len(s) : IsHex(s[i])

int16(s) == [i \in 1..Len(s) |-> HexVal(s[i])]

\* a correction that takes the stem without shifting it
ShiftNone(n) == n

\* n << 4
ShiftLeft4(n) == Append(n, 0)

\* a & b for two hexadecimal digits
DigitAnd(a, b) ==
    LET bit(x, k) == (x \div (2 ^ k)) % 2
    IN  bit(a, 0) * bit(b, 0) + 2 * bit(a, 1) * bit(b, 1)
          + 4 * bit(a, 2) * bit(b, 2) + 8 * bit(a, 3) * bit(b, 3)

\* n & m, digit by digit from the least significant end
BigAnd(n, m) ==
    LET len == IF Len(n) > Len(m) THEN Len(n) ELSE Len(m)
        dig(x, i) == IF i > len - Len(x) THEN x[i - (len - Len(x))] ELSE 0
    IN  [i \in 1..len |-> DigitAnd(dig(n, i), dig(m, i))]

\* 0xF00000000
EpochMask == <<15, 0, 0, 0, 0, 0, 0, 0, 0>>

\* stw_correction: the exception raised ("" if none) and the value returned
stw_correction(datafile) ==
    LET hex_part_of_filename == splitext0(basename(datafile))
    IN  IF ~IsHexString(hex_part_of_filename)
        THEN [raised |-> "ValueError", value |-> <<>>]
        ELSE [raised |-> "",
              value |-> BigAnd(ShiftLeft4(int16(hex_part_of_filename)), EpochMask)]

\* os.path.splitext(...)[1] of a name without separators
splitext1(b) ==
    LET dots == {i \in 1..Len(b) : b[i] = "."}
    IN  IF dots = {} THEN <<>>
        ELSE IF \E i \in 1..(Max(dots) - 1) : b[i] # "." THEN SubSeq(b, Max(dots), Len(b))
        ELSE <<>>

\* the number a sequence of hexadecimal digits stands for
RECURSIVE DigitsToInt(_)
DigitsToInt(d) == IF Len(d) = 0 THEN 0 ELSE 16 * DigitsToInt(SubSeq(d, 1, Len(d) - 1)) + d[Len(d)]

\* a value of at most nine hexadecimal digits as an stw
DigitsToStw(d) ==
    IF Len(d) <= 4 THEN Stw(0, DigitsToInt(d))
    ELSE Stw(DigitsToInt(SubSeq(d, 1, Len(d) - 4)), DigitsToInt(SubSeq(d, Len(d) - 3, Len(d))))

\* a + b on stw values
StwAdd(a, b) == Stw(a.hi + b.hi + ((a.lo + b.lo) \div Base), (a.lo + b.lo) % Base)

\* The stw import_file writes to the copy buffer for one decoded record of
\* raw stw, by file type: the exception that leaves import_file before the
\* write ("" if none) and the stw values written
StagedStw(datafile, raw) ==
    LET extension == splitext1(basename(datafile))
        correction == stw_correction(datafile)
    IN  IF extension \in {<<".", "a", "c", "1">>, <<".", "a", "c", "2">>, <<".", "f", "b", "a">>}
        THEN IF correction.raised # "" THEN [raised |-> correction.raised, staged |-> <<>>]
             ELSE [raised |-> "", staged |-> <<StwAdd(raw, DigitsToStw(correction.value))>>]
        ELSE IF extension = <<".", "a", "t", "t">>
        THEN [raised |-> "", staged |-> <<raw>>]
        ELSE IF extension = <<".", "s", "h", "k">>
        THEN [raised |-> getSHK(<<>>), staged |-> <<>>]
        ELSE [raised |-> "", staged |-> <<>>]

\* ------------------------------------------------------------------- store
Quals(t) ==
    IF t = "ac_level0" THEN {"AC1", "AC2"}
    ELSE IF t = "shk_level0" THEN {"LO495", "mixC495"}
    ELSE {"-"}

Stored(stw, qual, val, created) ==
    [stw |-> stw, qual |-> qual, val |-> val, created |-> created]

\* content of the level 0 tables before the first import: nothing, one row
\* per key, or two rows per key
PriorEmpty == [t \in Tables |-> {}]
PriorFull == [t \in Tables |-> {Stored(s, q, 0, 0) : s \in STWs, q \in Quals(t)}]
PriorDup == [t \in Tables |-> {Stored(s, q, v, 0) : s \in STWs, q \in Quals(t), v \in {0, 9}}]

\* The rows of the copy buffer, each with the datetime.now() taken when it
\* was written: a later row carries a later stamp.
Stamp(rows, clock) ==
    {Stored(rows[i].stw, rows[i].qual, rows[i].val, clock + i) : i \in 1..Len(rows)}

\* "select <key>, count(*) from foo group by <key> having count(*) > 1":
\* by stw for ac and fba, by (stw, shk_type) for shk
GroupKey(t, r) == IF t = "shk_level0" THEN <<r.stw, r.qual>> ELSE <<r.stw>>

DupGroups(t, foo) ==
    LET count(k) == Cardinality({r \in foo : GroupKey(t, r) = k})
    IN  {[key |-> k, count |-> count(k)] :
            k \in {k \in {GroupKey(t, r) : r \in foo} : count(k) > 1}}

\* "select created from foo where <key> limit n": any n rows of the group,
\* the statement has no order by
Limit(rows, n) == {c \in SUBSET rows : Cardinality(c) = n}

\* The dedup statement for one group.  Only the ac statement is valid SQL:
\* the fba one reads "and and", the shk one quotes the channel name as an
\* identifier; both raise ProgrammingError.
DedupRaises(t) == t \in {"fba_level0", "shk_level0"}

DedupDelete(foo, g, chosen) ==
    {r \in foo : ~(r.stw = g.key[1] /\ r.created \in {c.created : c \in chosen})}

\* "delete from <table> using foo f where ...": the join is on (stw, backend)
\* for ac and on stw alone for fba, attitude and shk
MergeMatch(t, r, f) ==
    IF t = "ac_level0" THEN f.stw = r.stw /\ r.qual = f.qual
    ELSE f.stw = r.stw

\* a merge that inserts without deleting first
MergeDeleteNothing(t, rows, foo) == rows

MergeDelete(t, rows, foo) == {r \in rows : ~\E f \in foo : MergeMatch(t, r, f)}

\* "insert into <table> (select * from foo)"
MergeInsert(rows, foo) == rows \cup foo

\* a connection in autocommit: what was executed stays
ConnExitNoRollback(committed, working, ok) == working

\* leaving "with psycopg2.connect(...) as conn": commit, or roll back when an
\* exception passes through
ConnExit(committed, working, ok) == IF ok THEN working ELSE committed

\* --------------------------------------------------------------- workflow
\* import_file's return value
Result(f) == [name |-> "datafile", type |-> f.ext]

\* The Choice state OdinSMRCheckImportStatus on the task's payload.  A rule
\* whose variable path is absent from the payload fails the execution with
\* States.Runtime.
CheckImportStatus(payload) ==
    IF "imported" \notin DOMAIN payload THEN "States.Runtime"
    ELSE IF payload["imported"] = FALSE THEN "SkipFile"
    ELSE IF payload["type"] \in {"ac1", "ac2"} THEN "NotifyLevel1Task"
    ELSE IF payload["type"] \in {"fba", "att", "shk"} THEN "Success"
    ELSE "Fail"

\* ------------------------------------------------------ activate_l0_handler
\* Python values as the handler sees them: None, a string (with the value
\* json.loads gives for it, Invalid when it is not JSON), a list, a dict.
Null == [t |-> "null"]
Invalid == [t |-> "invalid"]
Str(text, parsed) == [t |-> "str", s |-> text, v |-> parsed]
List(items) == [t |-> "list", v |-> items]
Dict(fields) == [t |-> "dict", v |-> fields]

Val(x) == [exc |-> "", val |-> x]
Exc(e) == [exc |-> e, val |-> Null]

\* x[k] for a string key k
GetKey(x, k) ==
    IF x.t = "dict" THEN (IF k \in DOMAIN x.v THEN Val(x.v[k]) ELSE Exc("KeyError"))
    ELSE Exc("TypeError")

\* x[0]
GetFirst(x) ==
    IF x.t = "dict" THEN Exc("KeyError")
    ELSE IF x.t = "list" THEN (IF Len(x.v) > 0 THEN Val(x.v[1]) ELSE Exc("IndexError"))
    ELSE IF x.t = "str" THEN (IF x.s # "" THEN Val(Str("c", Invalid)) ELSE Exc("IndexError"))
    ELSE Exc("TypeError")

\* json.loads(x)
loads(x) ==
    IF x.t # "str" THEN Exc("TypeError")
    ELSE IF x.v.t = "invalid" THEN Exc("JSONDecodeError")
    ELSE Val(x.v)

\* one step of a subscript chain: "[0]", "loads" or a string key
Step(x, st) ==
    IF st = "[0]" THEN GetFirst(x)
    ELSE IF st = "loads" THEN loads(x)
    ELSE GetKey(x, st)

\* the chain applied left to right; the first exception ends it
RECURSIVE Path(_, _)
Path(x, steps) ==
    IF steps = <<>> THEN Val(x)
    ELSE LET r == Step(x, Head(steps))
         IN  IF r.exc # "" THEN r ELSE Path(r.val, Tail(steps))

\* "except (KeyError, TypeError, json.JSONDecodeError)"
Caught == {"KeyError", "TypeError", "JSONDecodeError"}

\* parse_event_message: the exception raised ("" if none), bucket and key
parse_event_message(ev) ==
    LET message == Path(ev, <<"Records", "[0]", "body", "loads">>)
        bucket == Path(message.val, <<"Records", "[0]", "s3", "bucket", "name">>)
        key == Path(message.val, <<"Records", "[0]", "s3", "object", "key">>)
        first == IF message.exc # "" THEN message.exc
                 ELSE IF bucket.exc # "" THEN bucket.exc
                 ELSE key.exc
    IN  IF first = "" THEN [exc |-> "", bucket |-> bucket.val, key |-> key.val]
        ELSE [exc |-> IF first \in Caught THEN "InvalidMessage" ELSE first,
              bucket |-> Null, key |-> Null]

STATE_MACHINE_NAME == "OdinSMRImportLevel0StateMachine"

\* find_arn on the names list_state_machines returned: TRUE when one matches
find_arn(names) == \E i \in 1..Len(names) : names[i] = STATE_MACHINE_NAME

Return200 == [kind |-> "return", StatusCode |-> 200, exc |-> ""]
Raise(e) == [kind |-> "raise", StatusCode |-> 0, exc |-> e]
NoResponse == [kind |-> "none", StatusCode |-> 0, exc |-> ""]

\* a handler that acknowledges whatever went wrong
HandleAckAll(e) == Return200

\* a handler without the InvalidMessage clause
HandleRaiseAll(e) == Raise(e)

\* the except clauses of activate_l0_handler for an exception e raised in
\* its try block: InvalidMessage is acknowledged, everything else re-raised
Handle(e) == IF e = "InvalidMessage" THEN Return200 ELSE Raise(e)

\* ------------------------------------------------------------------- state
VARIABLES
    perm,        \* committed content of the level 0 tables
    work,        \* the open transaction's view of the target table
    foo,         \* the temporary staging table
    groups,      \* duplicate groups still to be collapsed
    batch,       \* the stamped rows of the copy buffer
    file,        \* the file of the current (or last) import
    tbl,         \* its target table
    pc,          \* position of import_file
    err,         \* exception that ended import_file, "" if none
    result,      \* value returned by import_file
    warned,      \* an UnknownFileType warning was emitted
    connected,   \* the import opened a store connection
    wf,          \* state of the import workflow execution
    clock,       \* wall clock, in stamps handed out
    nImports,    \* executions finished
    permBefore,  \* perm when the current import started
    repeat,      \* the current import repeats the last completed one
    lastOk,      \* the last import returned normally
    perm0,       \* perm before the first import
    rejected,    \* rows of the batch the store refused during the load
    fn,          \* the decoding function under evaluation
    arg,         \* its input
    ret,         \* its result, once fpc = "return"
    fpc,         \* "idle", "call" or "return"
    event,       \* the SQS event handed to activate_l0_handler
    apc,         \* position of activate_l0_handler
    machines,    \* names list_state_machines returns
    calls,       \* Step Functions client calls made so far, in order
    parsed,      \* what parse_event_message gave for the event
    response,    \* value returned or exception raised by the handler
    sessions,    \* the store sessions of imports running side by side
    shared,      \* committed content of the table they merge into
    xtbl         \* that table, and its content before they started

fnVars == <<fn, arg, ret, fpc>>
actVars == <<event, apc, machines, calls, parsed, response>>
txVars == <<sessions, shared, xtbl>>
importVars == <<perm, work, foo, groups, batch, file, tbl, pc, err, result, warned,
                connected, wf, clock, nImports, permBefore, repeat, lastOk, perm0,
                rejected>>

vars == <<importVars, fnVars, actVars, txVars>>

\* no decoding function is under evaluation
FnIdle == fn = "none" /\ arg = <<>> /\ ret = <<>> /\ fpc = "idle"

\* no event is being handled by activate_l0_handler
ActIdle ==
    /\ event = Null /\ apc = "idle" /\ machines = <<>> /\ calls = <<>>
    /\ parsed = [exc |-> "", bucket |-> Null, key |-> Null]
    /\ response = NoResponse

\* no imports run side by side
TxIdle == sessions = <<>> /\ shared = {} /\ xtbl = [name |-> "", before |-> {}]

NoResult == [name |-> "", type |-> ""]

InitCommon ==
    /\ work = {} /\ foo = {} /\ groups = {} /\ batch = {}
    /\ err = "" /\ result = NoResult /\ warned = FALSE /\ connected = FALSE
    /\ clock = 0 /\ nImports = 0 /\ repeat = FALSE /\ lastOk = FALSE
    /\ rejected = {}

Init ==
    /\ perm \in {PriorEmpty, PriorFull, PriorDup}
    /\ perm0 = perm /\ permBefore = perm
    /\ file = CHOOSE f \in UnknownFiles : TRUE
    /\ tbl = "ac_level0" /\ pc = "idle" /\ wf = "idle"
    /\ InitCommon
    /\ FnIdle /\ ActIdle /\ TxIdle

\* The workflow starts for one object and invokes the import task:
\* import_file up to the point where it opens the store connection.
StartExecution(f) ==
    /\ wf = "idle" /\ pc = "idle" /\ nImports < MaxImports
    /\ LET d == Decode(f)
       IN  /\ batch' = Stamp(d.rows, clock)
           /\ clock' = clock + Len(d.rows)
           /\ pc' = IF d.status = "ok" THEN "load"
                    ELSE IF d.status = "unknown" THEN "done" ELSE "raised"
           /\ err' = IF d.status \in {"ok", "unknown"} THEN "" ELSE d.status
           /\ warned' = (d.status = "unknown")
           /\ result' = IF d.status = "unknown" THEN Result(f) ELSE NoResult
    /\ file' = f /\ tbl' = TableOf(f.ext)
    /\ repeat' = (lastOk /\ f = file)
    /\ permBefore' = perm
    /\ wf' = "ImportLevel0Task"
    /\ work' = {} /\ foo' = {} /\ groups' = {} /\ connected' = FALSE
    /\ rejected' = {}
    /\ UNCHANGED <<perm, nImports, lastOk, perm0, fnVars, actVars, txVars>>

\* connect, create temporary table foo, copy_from, select the duplicate groups
StageLoad ==
    /\ pc = "load"
    /\ connected' = TRUE
    /\ work' = perm[tbl]
    /\ foo' = batch
    /\ groups' = IF tbl = "attitude_level0" THEN {} ELSE DupGroups(tbl, batch)
    /\ pc' = IF groups' = {} THEN "delete" ELSE "dedup"
    /\ UNCHANGED <<perm, batch, file, tbl, err, result, warned, wf, clock,
                   nImports, permBefore, repeat, lastOk, perm0, rejected,
                   fnVars, actVars, txVars>>

\* one iteration of "for r in cur": the delete statement for one group
DedupStep ==
    /\ pc = "dedup"
    /\ \E g \in groups :
         IF DedupRaises(tbl)
         THEN /\ pc' = "raised" /\ err' = "ProgrammingError"
              /\ perm' = [perm EXCEPT ![tbl] = ConnExit(perm[tbl], work, FALSE)]
              /\ UNCHANGED <<foo, groups>>
         ELSE /\ \E chosen \in Limit({r \in foo : r.stw = g.key[1]}, g.count - 1) :
                    foo' = DedupDelete(foo, g, chosen)
              /\ groups' = groups \ {g}
              /\ pc' = IF groups' = {} THEN "delete" ELSE "dedup"
              /\ UNCHANGED <<perm, err>>
    /\ UNCHANGED <<work, batch, file, tbl, result, warned, connected, wf, clock,
                   nImports, permBefore, repeat, lastOk, perm0, rejected,
                   fnVars, actVars, txVars>>

\* "delete from <table> using foo"
DeleteStep ==
    /\ pc = "delete"
    /\ work' = MergeDelete(tbl, work, foo)
    /\ pc' = "insert"
    /\ UNCHANGED <<perm, foo, groups, batch, file, tbl, err, result, warned,
                   connected, wf, clock, nImports, permBefore, repeat, lastOk, perm0, rejected,
                   fnVars, actVars, txVars>>

\* "insert into <table> (select * from foo)"
InsertStep ==
    /\ pc = "insert"
    /\ work' = MergeInsert(work, foo)
    /\ pc' = "commit"
    /\ UNCHANGED <<perm, foo, groups, batch, file, tbl, err, result, warned,
                   connected, wf, clock, nImports, permBefore, repeat, lastOk, perm0, rejected,
                   fnVars, actVars, txVars>>

\* the with block ends, conn.commit(), return
Commit ==
    /\ pc = "commit"
    /\ perm' = [perm EXCEPT ![tbl] = ConnExit(perm[tbl], work, TRUE)]
    /\ pc' = "done"
    /\ result' = Result(file)
    /\ UNCHANGED <<work, foo, groups, batch, file, tbl, err, warned, connected,
                   wf, clock, nImports, permBefore, repeat, lastOk, perm0, rejected,
                   fnVars, actVars, txVars>>

\* a store operation fails (connection, load, dedup, delete, insert, commit)
StoreFailure ==
    /\ pc \in {"load", "dedup", "delete", "insert", "commit"}
    /\ pc' = "raised" /\ err' = "OperationalError"
    /\ perm' = [perm EXCEPT ![tbl] = ConnExit(perm[tbl], work, FALSE)]
    /\ UNCHANGED <<work, foo, groups, batch, file, tbl, result, warned, connected,
                   wf, clock, nImports, permBefore, repeat, lastOk, perm0, rejected,
                   fnVars, actVars, txVars>>

\* copy_from meets a row the staging table refuses (foo is "like" the target
\* table, so it has its column types and not-null constraints): the COPY
\* statement raises, no handler surrounds it, the with block rolls back.
StageConflict ==
    /\ pc = "load"
    /\ \E r \in batch : rejected' = {r}
    /\ connected' = TRUE
    /\ pc' = "raised" /\ err' = "IntegrityError"
    /\ perm' = [perm EXCEPT ![tbl] = ConnExit(perm[tbl], work, FALSE)]
    /\ UNCHANGED <<work, foo, groups, batch, file, tbl, result, warned, wf, clock,
                   nImports, permBefore, repeat, lastOk, perm0, fnVars, actVars, txVars>>

\* the task ends: its payload goes to the Choice state, an exception that
\* outlasts the retries fails the execution
TaskEnd ==
    /\ wf = "ImportLevel0Task" /\ pc \in {"done", "raised"}
    /\ wf' = IF pc = "done" THEN CheckImportStatus(result) ELSE "States.TaskFailed"
    /\ UNCHANGED <<perm, work, foo, groups, batch, file, tbl, pc, err, result,
                   warned, connected, clock, nImports, permBefore, repeat, lastOk, perm0, rejected,
                   fnVars, actVars, txVars>>

\* the execution is over; the next object may be started
EndExecution ==
    /\ wf \notin {"idle", "ImportLevel0Task"}
    /\ wf' = "idle" /\ pc' = "idle"
    /\ lastOk' = (pc = "done")
    /\ nImports' = nImports + 1
    /\ UNCHANGED <<perm, work, foo, groups, batch, file, tbl, err, result, warned,
                   connected, clock, permBefore, repeat, perm0, rejected,
                   fnVars, actVars, txVars>>

Next ==
    \/ \E f \in Files : StartExecution(f)
    \/ StageLoad
    \/ DedupStep
    \/ DeleteStep
    \/ InsertStep
    \/ Commit
    \/ StoreFailure
    \/ StageConflict
    \/ TaskEnd
    \/ EndExecution

Spec == Init /\ [][Next]_vars

\* The store phase of import_file on its own: any batch the copy buffer can
\* hold for a table (one backend per ac batch, unique stw for attitude),
\* loaded, collapsed and merged into any prior content.
BatchRows(t) ==
    LET seqs == SeqsUpTo(STWs, MaxRecs)
        one(q) == {[i \in 1..Len(r) |-> Row(r[i], q, i)] : r \in seqs}
        uniq == {r \in seqs : \A a, b \in 1..Len(r) : a # b => r[a] # r[b]}
    IN  IF t = "ac_level0" THEN one("AC1") \cup one("AC2")
        ELSE IF t = "fba_level0" THEN one("-")
        ELSE IF t = "attitude_level0" THEN {[i \in 1..Len(r) |-> Row(r[i], "-", i)] : r \in uniq}
        ELSE {[i \in 1..Len(r) |-> Row(r[i].stw, r[i].qual, i)] :
                r \in SeqsUpTo([stw : STWs, qual : Quals(t)], MaxRecs)}

ExtOf(t) ==
    IF t = "ac_level0" THEN "ac1"
    ELSE IF t = "fba_level0" THEN "fba"
    ELSE IF t = "attitude_level0" THEN "att"
    ELSE "shk"

InitStore ==
    /\ perm \in {PriorEmpty, PriorFull, PriorDup}
    /\ perm0 = perm /\ permBefore = perm
    /\ tbl \in Tables
    /\ \E rows \in BatchRows(tbl) : batch = Stamp(rows, 0)
    /\ file = [ext |-> ExtOf(tbl), user |-> 0, recs |-> <<>>, cut |-> 0,
               frag |-> FALSE, lines |-> <<>>]
    /\ pc = "load" /\ wf = "ImportLevel0Task"
    /\ work = {} /\ foo = {} /\ groups = {}
    /\ err = "" /\ result = NoResult /\ warned = FALSE /\ connected = FALSE
    /\ clock = Cardinality(batch) /\ nImports = 0 /\ repeat = FALSE /\ lastOk = FALSE
    /\ rejected = {}
    /\ FnIdle /\ ActIdle /\ TxIdle

NextStore ==
    \/ StageLoad
    \/ DedupStep
    \/ DeleteStep
    \/ InsertStep
    \/ Commit
    \/ StoreFailure
    \/ StageConflict

SpecStore == InitStore /\ [][NextStore]_vars

\* The decoding functions on their own: one function is applied to one input.
ImportIdle ==
    /\ perm = PriorEmpty /\ perm0 = perm /\ permBefore = perm
    /\ file = CHOOSE f \in UnknownFiles : TRUE
    /\ tbl = "ac_level0" /\ pc = "idle" /\ wf = "idle"
    /\ InitCommon

\* file names: an optional directory prefix, a stem, an optional extension
Dirs == {<<>>, <<"/", "o", ".", "d", "/", "a", "c", "1", "/">>, <<"0", "1", "7", "/">>}

StemTails == {<<"1", "7", "f", "6", "e", "6", "c">>,
              <<"F", "F", "F", "F", "F", "F", "F">>,
              <<"0", "0", "0", "0", "0", "0", "0">>}

Stems ==
    {<<h>> \o t : h \in {HexLower[i] : i \in 1..16} \cup {HexUpper[i] : i \in 1..16},
                  t \in StemTails}
        \cup {<<"r", "e", "a", "d", "m", "e">>, <<"1", "7", "f", "6", "e", "6", "c">>}

Exts == {<<>>, <<".", "a", "c", "2">>, <<".", "f", "b", "a">>, <<".", "a", "t", "t">>,
         <<".", "s", "h", "k">>}

FileNames == {[stem |-> st, path |-> d \o st \o e] : d \in Dirs, st \in Stems, e \in Exts}

\* header words of AC spectra: index valid/aeronomy, valid/astronomy or not
\* valid; (samples, prescaler) usable, no samples or prescaler out of range;
\* (input word, chopper word) with and without a known input channel
AcHdrs ==
    {[index |-> i, samples |-> t[1], prescaler |-> t[2], w36 |-> w[1], chop |-> w[2]] :
        i \in {32768, 49152, 0},
        t \in {<<1, 2>>, <<0, 2>>, <<1, 7>>},
        w \in {<<256, 0>>, <<256, 43690>>, <<0, 0>>}}

\* a well-formed AC stream: spectrum i is a header block with the signature
\* followed by NSub sub-blocks; its stw and payload mark are i
AcStream(user, specs) ==
    [k \in 1..(Len(specs) * (NSub + 1)) |->
        LET i == ((k - 1) \div (NSub + 1)) + 1
            j == (k - 1) % (NSub + 1)
        IN  Block(user + j, i, IF j = 0 THEN i ELSE 0, specs[i])]

AcInputs == [user : {USER_AC1, USER_AC2}, specs : SeqsUpTo(AcHdrs, MaxSpectra)]

IntTimeHeads ==
    [index : {0}, samples : {0, 1, 2, 3, 1000, 32768, 65535},
     prescaler : (0..8) \cup {65535}, w36 : {0}, chop : {0}]

\* Data lines of attitude files: stw values 1, 5 and 20, the last one below
\* and one above 0x100000000 (0xFFFFFFF0, 0x100000005), one beyond stw1
\* (0x800000001); error vectors of magnitude 0, 1 and 1.
AttStws == {Stw(0, 1), Stw(0, 5), Stw(0, 20), Stw(65535, 65520), Stw(65536, 5),
            Stw(524288, 1)}
AttQes == {<<0, 0, 0>>, <<1, 0, 0>>, <<0, 1, 0>>}
AttInputs == SeqsUpTo([stw : AttStws, qe : AttQes], MaxLines)

\* Block streams as they come out of a downlink with gaps: a stream is a run
\* of segments, each one a block with the header user code (its sync word
\* intact or not) followed by nsub blocks of the same record, whose user code
\* counts up from the header's.  Segment i carries stw i.
SegKinds == [nsub : {0, 1, NSub}, sync : {SYNC, 0}]

Segment(user, i, seg) ==
    [j \in 1..(seg.nsub + 1) |->
        [Block(user + j - 1, i, IF j = 1 THEN i ELSE 0, DefaultHdr) EXCEPT !.sync = seg.sync]]

RECURSIVE SegStream(_, _, _)
SegStream(user, segs, i) ==
    IF i > Len(segs) THEN <<>>
    ELSE Segment(user, i, segs[i]) \o SegStream(user, segs, i + 1)

StreamInputs == [user : {USER_AC1, USER_AC2, USER_FBA}, segs : SeqsUpTo(SegKinds, MaxSegs)]

\* Words of an AC header and of a correlation row: zero-lag hints
\* (head[50:58]), monitor values (head[16:32]) around the half and the full
\* range of 16 bits, elements of an int16 row
LagWords == {0, 1, 2048, 4096, 65535}
MonWords == {0, 1, 32767, 32768, 32769, 65535}
CcRows == {<<a, 7, b>> : a \in {0, 5, -1, 32767}, b \in {-1, 0, 1}}

\* the values of ACfile.Mode
Modes == 0..ModeMask

Inputs(f) ==
    IF f = "stw_correction" THEN FileNames
    ELSE IF f = "import_ac" THEN AcInputs
    ELSE IF f = "IntTime" THEN IntTimeHeads
    ELSE IF f \in {"AttitudeParser", "getATT"} THEN AttInputs
    ELSE IF f = "get_seq" THEN Modes
    ELSE IF f = "import_stw"
    THEN {[stem |-> n.stem, path |-> n.path, raw |-> r] :
            n \in {m \in FileNames : Len(m.path) = Len(m.stem) + 4},
            r \in {Stw(0, 1), Stw(65535, 65535)}}
    ELSE IF f = "getAC_monitor" THEN [lag : LagWords, cc0 : {0, 15, -1}, mon : MonWords]
    ELSE IF f = "getAC_cc"
    THEN [mode : {0, 17, 42, 127}, ind : 0..(NChips - 1), row : CcRows, lag : LagWords]
    ELSE IF f = "getSpectrumHead"
    THEN {[user |-> a.user, segs |-> a.segs, pos |-> q] : a \in StreamInputs, q \in {0, 1}}
    ELSE {}

InitFn ==
    /\ ImportIdle /\ ActIdle /\ TxIdle
    /\ fn \in {"stw_correction", "import_ac", "IntTime", "AttitudeParser", "getATT",
             "get_seq", "getSpectrumHead", "getAC_monitor", "getAC_cc",
             "import_stw"}
    /\ arg \in Inputs(fn)
    /\ ret = <<>> /\ fpc = "call"

Call_stw_correction ==
    /\ fpc = "call" /\ fn = "stw_correction"
    /\ ret' = stw_correction(arg.path)
    /\ fpc' = "return"
    /\ UNCHANGED <<fn, arg, importVars, actVars, txVars>>

\* the decode loop of import_file on an AC stream
Call_import_ac ==
    /\ fpc = "call" /\ fn = "import_ac"
    /\ ret' = ACLoop(AcStream(arg.user, arg.specs), 0, 0, arg.user, <<>>)
    /\ fpc' = "return"
    /\ UNCHANGED <<fn, arg, importVars, actVars, txVars>>

\* ACfile.IntTime on a header, and the integration time getAC records for it
Call_IntTime ==
    /\ fpc = "call" /\ fn = "IntTime"
    /\ ret' = [raw |-> IntTime(arg), recorded |-> getAC_IntTime(arg)]
    /\ fpc' = "return"
    /\ UNCHANGED <<fn, arg, importVars, actVars, txVars>>

\* AttitudeParser([datafile]).table
Call_AttitudeParser ==
    /\ fpc = "call" /\ fn = "AttitudeParser"
    /\ ret' = AttitudeParser(arg, 1, {})
    /\ fpc' = "return"
    /\ UNCHANGED <<fn, arg, importVars, actVars, txVars>>

Call_getATT ==
    /\ fpc = "call" /\ fn = "getATT"
    /\ ret' = getATT(arg)
    /\ fpc' = "return"
    /\ UNCHANGED <<fn, arg, importVars, actVars, txVars>>

Call_get_seq ==
    /\ fpc = "call" /\ fn = "get_seq"
    /\ ret' = get_seq(arg)
    /\ fpc' = "return"
    /\ UNCHANGED <<fn, arg, importVars, actVars, txVars>>

\* ACfile.getSpectrumHead / FBAfile.getSpectrumHead with pos blocks consumed
Call_getSpectrumHead ==
    /\ fpc = "call" /\ fn = "getSpectrumHead"
    /\ ret' = getSpectrumHead(SegStream(arg.user, arg.segs, 1), arg.pos, arg.user)
    /\ fpc' = "return"
    /\ UNCHANGED <<fn, arg, importVars, actVars, txVars>>

\* getAC lines 146-152 for one monitor value
Call_getAC_monitor ==
    /\ fpc = "call" /\ fn = "getAC_monitor"
    /\ ret' = UnwrapMonitor(zlags(arg.lag, arg.cc0), arg.mon)
    /\ fpc' = "return"
    /\ UNCHANGED <<fn, arg, importVars, actVars, txVars>>

\* getAC lines 127-140 for one channel
Call_getAC_cc ==
    /\ fpc = "call" /\ fn = "getAC_cc"
    /\ ret' = FixRow(get_seq(arg.mode).band_start, arg.ind, arg.row, arg.lag)
    /\ fpc' = "return"
    /\ UNCHANGED <<fn, arg, importVars, actVars, txVars>>

\* import_file up to the write of one decoded record
Call_import_stw ==
    /\ fpc = "call" /\ fn = "import_stw"
    /\ ret' = StagedStw(arg.path, arg.raw)
    /\ fpc' = "return"
    /\ UNCHANGED <<fn, arg, importVars, actVars, txVars>>

NextFn ==
    \/ Call_stw_correction
    \/ Call_import_ac
    \/ Call_IntTime
    \/ Call_AttitudeParser
    \/ Call_getATT
    \/ Call_get_seq
    \/ Call_getSpectrumHead
    \/ Call_getAC_monitor
    \/ Call_getAC_cc
    \/ Call_import_stw

SpecFn == InitFn /\ [][NextFn]_vars

\* activate_l0_handler on its own: one SQS event, the account's state
\* machines and the outcome of each Step Functions call chosen freely.
Buckets == {"b1", "b2"}
Keys == {"ac1/017/017f6e6c.ac1", "att/1.att", "shk/2.shk", "x"}

S3Record(b, k) ==
    Dict([s3 |-> Dict([bucket |-> Dict([name |-> Str(b, Invalid)]),
                       object |-> Dict([key |-> Str(k, Invalid)])])])

\* S3 records that lack a field on the way to the bucket name or the key
BadS3Records ==
    {Dict(<<>>),
     Dict([s3 |-> Null]),
     Dict([s3 |-> Dict([bucket |-> Dict([name |-> Str("b1", Invalid)])])]),
     Dict([s3 |-> Dict([bucket |-> Dict(<<>>),
                        object |-> Dict([key |-> Str("x", Invalid)])])])}

\* what the body of the first SQS record may hold once parsed as JSON
Messages ==
    {Dict([Records |-> List(<<r>>)]) :
        r \in {S3Record(b, k) : b \in Buckets, k \in Keys} \cup BadS3Records}
      \cup {Dict([Records |-> List(<<>>)]), Dict([Records |-> Null]), Dict(<<>>),
            List(<<>>), Null, Str("text", Invalid)}

Bodies == {Str("json", m) : m \in Messages} \cup {Str("not-json", Invalid), Null}

Events ==
    {Dict([Records |-> List(<<Dict([body |-> b])>>)]) : b \in Bodies}
      \cup {Dict(<<>>), Dict([Records |-> List(<<>>)]), Dict([Records |-> Null]),
            Dict([Records |-> List(<<Dict(<<>>)>>)])}

\* the names list_state_machines may return
MachineLists ==
    {<<>>, <<"other">>, <<STATE_MACHINE_NAME>>, <<"other", STATE_MACHINE_NAME>>,
     <<STATE_MACHINE_NAME, "other">>}

Call(op, ok) == [op |-> op, ok |-> ok]

InitActivate ==
    /\ ImportIdle /\ FnIdle /\ TxIdle
    /\ event \in Events
    /\ apc = "parse" /\ machines = <<>> /\ calls = <<>>
    /\ parsed = [exc |-> "", bucket |-> Null, key |-> Null]
    /\ response = NoResponse

\* bucket, object_path = parse_event_message(event)
ParseEvent ==
    /\ apc = "parse"
    /\ parsed' = parse_event_message(event)
    /\ IF parsed'.exc = ""
       THEN apc' = "find_arn" /\ UNCHANGED response
       ELSE /\ response' = Handle(parsed'.exc)
            /\ apc' = IF response'.kind = "return" THEN "returned" ELSE "raised"
    /\ UNCHANGED <<event, machines, calls, importVars, fnVars, txVars>>

\* state_machine_arn = find_arn(): list_state_machines answers
FindArn ==
    /\ apc = "find_arn"
    /\ calls' = Append(calls, Call("list_state_machines", TRUE))
    /\ \E names \in MachineLists :
          /\ machines' = names
          /\ IF find_arn(names)
             THEN apc' = "start" /\ UNCHANGED response
             ELSE /\ response' = Handle("StateMachineError")
                  /\ apc' = IF response'.kind = "return" THEN "returned" ELSE "raised"
    /\ UNCHANGED <<event, parsed, importVars, fnVars, txVars>>

\* list_state_machines raises
FindArnFails ==
    /\ apc = "find_arn"
    /\ calls' = Append(calls, Call("list_state_machines", FALSE))
    /\ response' = Handle("ClientError")
    /\ apc' = IF response'.kind = "return" THEN "returned" ELSE "raised"
    /\ UNCHANGED <<event, machines, parsed, importVars, fnVars, txVars>>

\* sfn.start_execution(...) succeeds or raises; return {"StatusCode": 200}
SfnStartExecution ==
    /\ apc = "start"
    /\ \E ok \in BOOLEAN :
          /\ calls' = Append(calls, Call("start_execution", ok))
          /\ response' = IF ok THEN Return200 ELSE Handle("ClientError")
          /\ apc' = IF response'.kind = "return" THEN "returned" ELSE "raised"
    /\ UNCHANGED <<event, machines, parsed, importVars, fnVars, txVars>>

NextActivate ==
    \/ ParseEvent
    \/ FindArn
    \/ FindArnFails
    \/ SfnStartExecution

SpecActivate == InitActivate /\ [][NextActivate]_vars

\* ------------------------------------------------- decode loops, by iteration
\* The "while True" loops of import_file for .ac1/.ac2 and .fba, one
\* iteration at a time.  arg holds the block stream, ret the loop's state: the blocks consumed by
\* the first and the second reader (p1, p2), the rows written to the buffer,
\* the header blocks taken in the last iteration (h, h2) and the number of
\* iterations completed.
LoopStart == [p1 |-> 0, p2 |-> 0, rows |-> <<>>, h |-> 0, h2 |-> 0, iters |-> 0]

InitDecode ==
    /\ ImportIdle /\ ActIdle /\ TxIdle
    /\ fn \in {"ac_loop", "fba_loop"}
    /\ arg \in {[user |-> a.user, segs |-> a.segs, blocks |-> SegStream(a.user, a.segs, 1)] :
                    a \in {b \in StreamInputs : (b.user = USER_FBA) <=> (fn = "fba_loop")}}
    /\ ret = LoopStart
    /\ fpc = "loop"

\* import_file lines 305-335: getAC, getACdis, filter and write; EOFError breaks
AcIteration ==
    /\ fpc = "loop" /\ fn = "ac_loop"
    /\ LET st == ACStep(arg.blocks, ret.p1, ret.p2, arg.user)
       IN  IF st.eof
           THEN fpc' = "return" /\ ret' = ret
           ELSE /\ fpc' = "loop"
                /\ ret' = [p1 |-> st.p1, p2 |-> st.p2,
                           rows |-> IF st.keep THEN Append(ret.rows, st.row) ELSE ret.rows,
                           h |-> st.h, h2 |-> st.h2, iters |-> ret.iters + 1]
    /\ UNCHANGED <<fn, arg, importVars, actVars, txVars>>

\* import_file lines 363-377: getFBA and write; EOFError breaks
FbaIteration ==
    /\ fpc = "loop" /\ fn = "fba_loop"
    /\ LET st == FBAStep(arg.blocks, ret.p1, arg.user)
       IN  IF st.eof
           THEN fpc' = "return" /\ ret' = ret
           ELSE /\ fpc' = "loop"
                /\ ret' = [p1 |-> st.p1, p2 |-> 0, rows |-> Append(ret.rows, st.row),
                           h |-> st.h, h2 |-> 0, iters |-> ret.iters + 1]
    /\ UNCHANGED <<fn, arg, importVars, actVars, txVars>>

NextDecode ==
    \/ AcIteration
    \/ FbaIteration

SpecDecode == InitDecode /\ [][NextDecode]_vars

\* the loops run on: python executes the next iteration whenever there is one
SpecDecodeFair == SpecDecode /\ WF_vars(NextDecode)

\* ------------------------------------------- imports running side by side
\* Two import_file calls on files of one subsystem, each with its own
\* connection to the same database.  "create temporary table foo" is private
\* to a connection; the level 0 table is shared.  psycopg2 opens a
\* transaction at the first statement and leaves the server's default
\* isolation, read committed: a statement sees the rows committed when it
\* starts and the changes of its own transaction, a delete waits for a
\* transaction that has deleted one of its rows and skips the row once that
\* transaction has committed.
Session(rows) ==
    [pc |-> "load", batch |-> rows, foo |-> {}, groups |-> {}, snap |-> {},
     del |-> {}, ins |-> {}]

\* an SHK import raises in getSHK and never connects
TxTables == Tables \ {"shk_level0"}

InitConcurrent ==
    /\ \E t \in TxTables :
         /\ \E before \in {PriorEmpty[t], PriorFull[t], PriorDup[t]} :
              /\ xtbl = [name |-> t, before |-> before]
              /\ shared = before
         /\ \E r1 \in BatchRows(t), r2 \in BatchRows(t) :
              sessions = <<Session(Stamp(r1, 0)), Session(Stamp(r2, MaxRecs))>>
    /\ ImportIdle /\ FnIdle /\ ActIdle

\* connect, create temporary table foo, copy_from, select the duplicate groups
TxStageLoad(i) ==
    /\ sessions[i].pc = "load"
    /\ LET s == sessions[i]
           g == IF xtbl.name = "attitude_level0" THEN {}
                ELSE DupGroups(xtbl.name, s.batch)
       IN  sessions' = [sessions EXCEPT ![i] =
               [s EXCEPT !.foo = s.batch, !.groups = g,
                         !.pc = IF g = {} THEN "delete" ELSE "dedup"]]
    /\ UNCHANGED <<shared, xtbl, importVars, fnVars, actVars>>

\* one iteration of "for r in cur" on the session's own foo
TxDedupStep(i) ==
    /\ sessions[i].pc = "dedup"
    /\ LET s == sessions[i]
       IN  \E g \in s.groups :
             IF DedupRaises(xtbl.name)
             THEN sessions' = [sessions EXCEPT ![i] = [s EXCEPT !.pc = "raised"]]
             ELSE \E chosen \in Limit({r \in s.foo : r.stw = g.key[1]}, g.count - 1) :
                    sessions' = [sessions EXCEPT ![i] =
                        [s EXCEPT !.foo = DedupDelete(s.foo, g, chosen),
                                  !.groups = s.groups \ {g},
                                  !.pc = IF s.groups \ {g} = {} THEN "delete"
                                         ELSE "dedup"]]
    /\ UNCHANGED <<shared, xtbl, importVars, fnVars, actVars>>

\* "delete from <table> using foo" starts: the statement takes its snapshot
TxDeleteBegin(i) ==
    /\ sessions[i].pc = "delete"
    /\ sessions' = [sessions EXCEPT ![i] =
           [sessions[i] EXCEPT !.snap = shared, !.pc = "deleting"]]
    /\ UNCHANGED <<shared, xtbl, importVars, fnVars, actVars>>

\* a delete statement that is not restricted to the staged keys
TxTargetsAll(s) == s.snap

\* the rows the delete statement of a session goes for
TxTargets(s) == s.snap \ MergeDelete(xtbl.name, s.snap, s.foo)

\* the delete statement ends: it has waited for the sessions holding one of
\* its rows, and deletes the rows that are still there
TxDeleteEnd(i) ==
    /\ sessions[i].pc = "deleting"
    /\ \A j \in DOMAIN sessions :
         (j # i /\ sessions[j].pc \in {"insert", "commit"}) =>
             sessions[j].del \cap TxTargets(sessions[i]) = {}
    /\ sessions' = [sessions EXCEPT ![i] =
           [sessions[i] EXCEPT !.del = TxTargets(sessions[i]) \cap shared,
                               !.pc = "insert"]]
    /\ UNCHANGED <<shared, xtbl, importVars, fnVars, actVars>>

\* "insert into <table> (select * from foo)"
TxInsert(i) ==
    /\ sessions[i].pc = "insert"
    /\ sessions' = [sessions EXCEPT ![i] =
           [sessions[i] EXCEPT !.ins = MergeInsert({}, sessions[i].foo),
                               !.pc = "commit"]]
    /\ UNCHANGED <<shared, xtbl, importVars, fnVars, actVars>>

\* the with block ends, conn.commit(): the session's deletes and inserts
\* become the committed content
TxCommit(i) ==
    /\ sessions[i].pc = "commit"
    /\ shared' = ConnExit(shared,
                          MergeInsert(shared \ sessions[i].del, sessions[i].ins),
                          TRUE)
    /\ sessions' = [sessions EXCEPT ![i] = [sessions[i] EXCEPT !.pc = "done"]]
    /\ UNCHANGED <<xtbl, importVars, fnVars, actVars>>

NextConcurrent ==
    \/ \E i \in DOMAIN sessions : TxStageLoad(i)
    \/ \E i \in DOMAIN sessions : TxDedupStep(i)
    \/ \E i \in DOMAIN sessions : TxDeleteBegin(i)
    \/ \E i \in DOMAIN sessions : TxDeleteEnd(i)
    \/ \E i \in DOMAIN sessions : TxInsert(i)
    \/ \E i \in DOMAIN sessions : TxCommit(i)

SpecConcurrent == InitConcurrent /\ [][NextConcurrent]_vars

\* ------------------------------------------------------------------ claims
StripCreated(rows) == {Row(r.stw, r.qual, r.val) : r \in rows}

\* the dedup key the data model gives a row: stw, with the backend or the
\* channel where the table has one ("-" elsewhere)
DedupKey(r) == <<r.stw, r.qual>>

NoDupKeys(rows) == \A a, b \in rows : DedupKey(a) = DedupKey(b) => a = b

Returned == pc = "done" /\ connected

\* C1: importing the same file twice in succession leaves the permanent
\* table with the same row set (the created stamp aside) as importing it once.
C1_Idempotent ==
    (pc = "done" /\ repeat) =>
        StripCreated(perm[tbl]) = StripCreated(permBefore[tbl])

\* C2: a merge is all rows or none.  When import_file has raised, the
\* exception is recorded, nothing is returned and every table is as it was
\* before the call; at every moment the committed target table is either
\* untouched or holds the complete merge (all matching rows deleted and all
\* staged rows inserted), and no other table changes.
C2_AllOrNone ==
    /\ pc = "raised" => (err # "" /\ result = NoResult /\ perm = permBefore)
    /\ \A t \in Tables \ {tbl} : perm[t] = permBefore[t]
    /\ \/ perm[tbl] = permBefore[tbl]
       \/ /\ pc \in {"done", "idle"}
          /\ perm[tbl] = {r \in permBefore[tbl] : ~\E f \in foo : MergeMatch(tbl, r, f)}
                            \cup foo

\* a store failure after the delete and the insert ran inside the transaction
C2_Witness ==
    /\ pc = "raised" /\ err = "OperationalError"
    /\ work # permBefore[tbl] /\ foo # {}
    /\ \E r \in permBefore[tbl] : r \notin work

\* C3: the staging dedup step, unless the store itself fails, ends with
\* exactly one staged row for every dedup key of the loaded batch and hands
\* over to the merge.
C3_OneRowPerKey ==
    [][(pc = "dedup" /\ pc' # "dedup" /\ err' # "OperationalError") =>
          /\ pc' = "delete"
          /\ \A b \in batch :
                Cardinality({r \in foo' : DedupKey(r) = DedupKey(b)}) = 1]_vars

\* C4: in the ac staging table the row that survives the dedup of a group is
\* the one with the latest created stamp of that group.
C4_LastWriteWins ==
    (tbl = "ac_level0" /\ pc \in {"delete", "insert", "commit", "done"} /\ connected) =>
        \A r \in foo :
            r.created = Max({b.created : b \in {x \in batch : DedupKey(x) = DedupKey(r)}})

C6_UniqueKeys ==
    (\A t \in Tables : NoDupKeys(perm0[t])) => \A t \in Tables : NoDupKeys(perm[t])

\* a second import has replaced rows of a populated table, its batch having
\* held a duplicate that the dedup collapsed
C6_Witness ==
    /\ perm0 = PriorFull /\ nImports = 1 /\ Returned
    /\ Cardinality(foo) < Cardinality(batch)
    /\ \E r \in perm[tbl] : r.created > 0
    /\ \E r \in perm[tbl] : r.created = 0

KnownExt == {"ac1", "ac2", "fba", "att", "shk"}

\* C7: for an unknown extension import_file warns, performs no store
\* operation and returns imported = false with the extension as type.
C7_UnknownExtension ==
    (pc \in {"done", "raised"} /\ file.ext \notin KnownExt) =>
        /\ pc = "done" /\ warned /\ ~connected /\ perm = permBefore
        /\ "imported" \in DOMAIN result
        /\ result["imported"] = FALSE
        /\ result["type"] = file.ext

\* C8: the workflow enters the notify step only for an imported ac1/ac2
\* result, and routes every result import_file returns to skip (not
\* imported), notify (ac1, ac2) or success (fba, att, shk).
C8_Routing ==
    /\ wf = "NotifyLevel1Task" =>
          /\ "imported" \in DOMAIN result
          /\ result["imported"] = TRUE
          /\ result["type"] \in {"ac1", "ac2"}
    /\ (pc = "done" /\ wf \notin {"idle", "ImportLevel0Task"}) =>
          wf \in {"SkipFile", "NotifyLevel1Task", "Success"}

Accepts(ext) ==
    IF ext \in {"ac1", "ac2"} THEN {"AC1", "AC2"}
    ELSE IF ext = "fba" THEN {"FBA"} ELSE {"SHK"}

\* C9: a recognised extension whose first header matches no entry of the
\* type table, or another subsystem, is nonfatal: no exception, store
\* untouched, a not-imported result.
C9_HeaderMismatch ==
    (/\ pc \in {"done", "raised"}
     /\ file.ext \in {"ac1", "ac2", "fba", "shk"}
     /\ FileType(file.user) \notin Accepts(file.ext)) =>
        /\ pc = "done" /\ err = "" /\ ~connected /\ perm = permBefore
        /\ "imported" \in DOMAIN result
        /\ result["imported"] = FALSE

\* the rows of the records that are complete in the stream: an ac record
\* needs its header and all NSub sub-blocks, an fba record its one block
CompleteRows(f) ==
    LET n == IF f.ext = "fba" THEN Len(Blocks(f)) ELSE Len(Blocks(f)) \div (NSub + 1)
        q == IF f.ext = "fba" THEN "-" ELSE Backend(Block0(f))
    IN  [i \in 1..n |-> Row(f.recs[i], q, i)]

Truncatable ==
    /\ pc # "idle"
    /\ file.ext \in {"ac1", "ac2", "fba"}
    /\ FileType(file.user) \in Accepts(file.ext)

C11_StagingConflict ==
    rejected # {} =>
        /\ err # "IntegrityError"
        /\ pc \in {"delete", "insert", "commit", "done"} =>
              \A b \in batch \ rejected : \E r \in foo : DedupKey(r) = DedupKey(b)
        /\ pc = "done" => foo \subseteq perm[tbl]

\* C12: for a file name whose stem is eight hexadecimal digits, whatever its
\* directory prefix and extension, stw_correction returns the stem's leading
\* digit times 2^32: as a 36-bit number, that digit followed by eight zero
\* digits, so the low 32 bits are zero.
C12_StwCorrection ==
    (fpc = "return" /\ fn = "stw_correction"
        /\ Len(arg.stem) = 8 /\ IsHexString(arg.stem)) =>
        /\ ret.raised = ""
        /\ ret.value = <<HexVal(arg.stem[1]), 0, 0, 0, 0, 0, 0, 0, 0>>

\* the correction of a name with a directory prefix whose stem starts with 3
C12_Witness ==
    /\ fpc = "return" /\ fn = "stw_correction"
    /\ Len(arg.stem) = 8 /\ arg.stem[1] = "3" /\ arg.path[1] = "/"
    /\ ret.value[1] = 3

\* a spectrum header that meets the four conditions: integration time not
\* the sentinel, index word valid with the astronomy flag clear (AERO),
\* frontend resolved, signal type not "problem"
Usable(h, type) ==
    /\ ~TimeIs(getAC_IntTime(h), SENTINEL)
    /\ (h.index \div 32768) % 2 = 1 /\ (h.index \div 16384) % 2 = 0
    /\ Frontend(h) # "none"
    /\ Type(h, type) # "problem"

C20_IntTime ==
    (fpc = "return" /\ fn = "IntTime") =>
        LET inrange == arg.prescaler >= 2 /\ arg.prescaler <= 6
        IN  /\ ~inrange => TimeIs(ret.raw, 0)
            /\ inrange =>
                  /\ ret.raw.den = TenE6
                  /\ ret.raw.num = (arg.samples % 65536) * (2 ^ (14 - arg.prescaler))
            /\ TimeIs(ret.recorded, SENTINEL) <=> TimeIs(ret.raw, 0)
            /\ ~TimeIs(ret.raw, 0) => ret.recorded = ret.raw
            /\ ~inrange => TimeIs(ret.recorded, SENTINEL)

\* a header with samples but prescaler 7: the sentinel is recorded
C20_Witness ==
    /\ fpc = "return" /\ fn = "IntTime"
    /\ arg.prescaler = 7 /\ arg.samples = 1000
    /\ TimeIs(ret.recorded, SENTINEL)

Finished == apc \in {"returned", "raised"}

StartCalls == {i \in 1..Len(calls) : calls[i].op = "start_execution"}

C15_StartThenAck ==
    (Finished /\ parsed.exc = "") =>
        /\ response.kind = "return" =>
              /\ response = Return200
              /\ Cardinality(StartCalls) = 1
              /\ calls[Len(calls)] = Call("start_execution", TRUE)
        /\ (calls = <<Call("list_state_machines", TRUE)>> /\ ~find_arn(machines)) =>
              response = Raise("StateMachineError")
        /\ (\E i \in StartCalls : ~calls[i].ok) => response.kind = "raise"
        /\ response.kind \in {"return", "raise"}

\* the state machine was found behind another one and the execution started
C15_Witness ==
    /\ apc = "returned" /\ parsed.exc = ""
    /\ machines = <<"other", STATE_MACHINE_NAME>>
    /\ calls = <<Call("list_state_machines", TRUE), Call("start_execution", TRUE)>>
    /\ response = Return200

\* the first record's body is JSON holding Records[0].s3.bucket.name and
\* Records[0].s3.object.key
BodySteps == <<"Records", "[0]", "body", "loads">>
HasBucketAndKey(ev) ==
    /\ Path(ev, BodySteps \o <<"Records", "[0]", "s3", "bucket", "name">>).exc = ""
    /\ Path(ev, BodySteps \o <<"Records", "[0]", "s3", "object", "key">>).exc = ""

\* C16: parse_event_message returns (bucket, key) for an event that holds
\* them, and raises InvalidMessage, no other exception, for every other event.
C16_ParseEventMessage ==
    (apc # "parse") =>
        IF HasBucketAndKey(event)
        THEN /\ parsed.exc = ""
             /\ parsed.bucket =
                   Path(event, BodySteps \o <<"Records", "[0]", "s3", "bucket", "name">>).val
             /\ parsed.key =
                   Path(event, BodySteps \o <<"Records", "[0]", "s3", "object", "key">>).val
        ELSE parsed.exc = "InvalidMessage"

\* ------------------------------------------------------------------ C17
\* the lines of a parsed file that carry the stw of a table entry
SameStw(lines, e) == {i \in 1..Len(lines) : lines[i].stw = e.stw}

\* C17: after AttitudeParser has scanned a file, every key of the table holds
\* a sample whose sum-of-squares error is minimal among all lines with that
\* stw, and of the lines of minimal error it holds the first one (on equal
\* magnitudes the existing entry is kept); every accepted stw has a key.
C17_SmallestErrorKept ==
    (fn = "AttitudeParser" /\ fpc = "return") =>
        /\ \A e \in ret :
              /\ e.val \in SameStw(arg, e) /\ e.qe = arg[e.val].qe
              /\ \A i \in SameStw(arg, e) :
                    /\ Err(e.qe) <= Err(arg[i].qe)
                    /\ Err(arg[i].qe) = Err(e.qe) => e.val <= i
        /\ \A e1, e2 \in ret : e1.stw = e2.stw => e1 = e2
        /\ \A i \in 1..Len(arg) : InRange(arg[i].stw) <=> \E e \in ret : e.stw = arg[i].stw

\* C17 witness: a file of three lines with one stw, whose second line has a
\* smaller error than the first and whose third line ties with the second:
\* the table holds the second line.
C17_Witness ==
    /\ fn = "AttitudeParser" /\ fpc = "return"
    /\ Len(arg) = 3
    /\ arg[1].stw = arg[2].stw /\ arg[2].stw = arg[3].stw
    /\ Err(arg[2].qe) < Err(arg[1].qe)
    /\ Err(arg[3].qe) = Err(arg[2].qe)
    /\ \E e \in ret : e.val = 2

\* ------------------------------------------------------------------ C18
\* C18: no two samples in the output of getATT have stw values fewer than 17
\* ticks apart.
C18_NoCloseSamples ==
    (fn = "getATT" /\ fpc = "return") =>
        \A a, b \in 1..Len(ret) :
            (a # b /\ StwLE(ret[a].stw, ret[b].stw))
                => ~DiffLess(ret[a].stw, ret[b].stw, CloseTicks)

\* ------------------------------------------------------------------ C19
\* C19: the list returned by getATT is ordered by strictly ascending stw.
C19_AscendingStw ==
    (fn = "getATT" /\ fpc = "return") =>
        \A a, b \in 1..Len(ret) :
            a < b => (StwLE(ret[a].stw, ret[b].stw) /\ ret[a].stw # ret[b].stw)


\* ------------------------------------------------------------------ C21
\* the mode word without the bit get_seq never looks at
ChipBits(mode) == mode % 128

\* C21: get_seq returns the single band 0..7 starting at 0 for a mode that
\* cascades all eight chips (no chip after the first opens a band), and four
\* bands of two chips starting at 0, 2, 4 and 6 for a mode in which chips 2,
\* 4 and 6 open a band (0x2A).
C21_ChipTopology ==
    (fn = "get_seq" /\ fpc = "return") =>
        /\ ChipBits(arg) = 0 =>
              /\ ret.chips = <<Range(0, 8)>>
              /\ ret.band_start = <<0>>
        /\ ChipBits(arg) = 42 =>
              /\ ret.chips = <<Range(0, 2), Range(2, 2), Range(4, 2), Range(6, 2)>>
              /\ ret.band_start = <<0, 2, 4, 6>>

\* C21 witness: get_seq has returned four bands for mode 0x2A
C21_Witness ==
    /\ fn = "get_seq" /\ fpc = "return" /\ arg = 42
    /\ Len(ret.chips) = 4

\* ------------------------------------------------------------------ C29
\* C29: for every 8-bit mode the bands of get_seq partition the chips 0..7:
\* every band is a non-empty run of consecutive chips, band k + 1 begins
\* where band k ends, the first band begins at chip 0, the last one ends at
\* chip 7, and band_start[k] is the first chip of band k.
C29_BandsPartition ==
    (fn = "get_seq" /\ fpc = "return") =>
        LET chips == ret.chips
            n == Len(chips)
        IN  /\ n >= 1 /\ Len(ret.band_start) = n
            /\ \A k \in 1..n :
                  /\ Len(chips[k]) >= 1
                  /\ \A j \in 1..(Len(chips[k]) - 1) : chips[k][j + 1] = chips[k][j] + 1
                  /\ ret.band_start[k] = chips[k][1]
            /\ chips[1][1] = 0
            /\ \A k \in 1..(n - 1) : chips[k + 1][1] = chips[k][Len(chips[k])] + 1
            /\ chips[n][Len(chips[n])] = NChips - 1

\* C29 witness: get_seq has returned three bands of different lengths
C29_Witness ==
    /\ fn = "get_seq" /\ fpc = "return"
    /\ Len(ret.chips) = 3
    /\ Len(ret.chips[1]) = 1 /\ Len(ret.chips[2]) = 4 /\ Len(ret.chips[3]) = 3


\* ------------------------------------------------------------------ C23
\* the blocks getSpectrumHead was called on, and the blocks it had to choose
\* from
HeadStream == SegStream(arg.user, arg.segs, 1)
HeadAhead == (arg.pos + 1)..Len(HeadStream)

\* C23: getSpectrumHead returns the next block whose sync word is 0x2BD3 and
\* whose user code masked with 0xFFF0 is the file's signature, and skips
\* every block that does not match.
C23_MaskedSignature ==
    (fn = "getSpectrumHead" /\ fpc = "return" /\ arg.user \in {USER_AC1, USER_AC2}) =>
        LET match == {i \in HeadAhead :
                        HeadStream[i].sync = SYNC /\ Mask(HeadStream[i].user) = arg.user}
        IN  ret = IF match = {} THEN 0 ELSE Min(match)

\* C23 amended: getSpectrumHead returns the next block whose sync word is
\* 0x2BD3 and whose user code equals the file's signature, and skips every
\* other block, the blocks whose user code matches only under the mask
\* included; it returns None when no such block is left.
C23_ExactSignature ==
    (fn = "getSpectrumHead" /\ fpc = "return" /\ arg.user \in {USER_AC1, USER_AC2}) =>
        LET match == {i \in HeadAhead :
                        HeadStream[i].sync = SYNC /\ HeadStream[i].user = arg.user}
        IN  ret = IF match = {} THEN 0 ELSE Min(match)

\* C23 witness: called after the header of an AC stream, getSpectrumHead has
\* skipped a block with intact sync whose user code matches under the mask
\* only and returned the header behind it
C23_Witness ==
    /\ fn = "getSpectrumHead" /\ fpc = "return" /\ arg.user = USER_AC1
    /\ arg.pos = 1 /\ Len(arg.segs) = 2
    /\ arg.segs[1].nsub = 1 /\ arg.segs[1].sync = SYNC /\ arg.segs[2].sync = SYNC
    /\ ret = 3


\* ------------------------------------------------------------------ C22
\* C22: in every iteration of the AC import loop the discipline flag of
\* getACdis and the record of getAC were taken at the same header block.
C22_Lockstep ==
    (fn = "ac_loop" /\ ret.iters > 0) =>
        ret.h = ret.h2 /\ arg.blocks[ret.h].stw = arg.blocks[ret.h2].stw

\* ------------------------------------------------------------------ C30
\* the header-signature blocks of the stream a loop decodes
SignatureBlocks == {i \in 1..Len(arg.blocks) : Signature(arg.blocks[i], arg.user)}

\* C30: the decode loops for .ac1/.ac2 and .fba terminate on every finite
\* block stream: every iteration ends the loop or makes each reader consume
\* at least one block, the number of records never exceeds the number of
\* header-signature blocks, and the loop eventually ends.
C30_LoopsTerminate ==
    /\ [](Len(ret.rows) <= Cardinality(SignatureBlocks) /\ ret.iters <= Cardinality(SignatureBlocks))
    /\ [][fpc' = "return"
            \/ (ret'.p1 > ret.p1 /\ (fn = "ac_loop" => ret'.p2 > ret.p2))]_vars
    /\ <>(fpc = "return")

\* C30 witness: an AC loop over three segments that ended after two
\* iterations with two rows
C30_Witness ==
    /\ fpc = "return" /\ ret.iters = 2 /\ Len(ret.rows) = 2
    /\ fn = "ac_loop" /\ Len(arg.segs) = 3


\* ------------------------------------------------------------------ C24
\* C24: after the monitor unwrap the unscaled monitor value differs from the
\* channel's zero-lag reference by at most 0x8000: a value more than 0x8000
\* above the reference has had 0x10000 subtracted, one more than 0x8000 below
\* has had 0x10000 added, and each value is adjusted at most once.
C24_MonitorUnwrap ==
    (fn = "getAC_monitor" /\ fpc = "return") =>
        LET z == arg.lag * 16 + (((arg.cc0 % 16) + 16) % 16)
            m0 == (z \div 65536) * 65536 + arg.mon
        IN  /\ ret.mon64 - z <= 32768 /\ z - ret.mon64 <= 32768
            /\ m0 - z > 32768 => ret.mon64 = m0 - 65536
            /\ z - m0 > 32768 => ret.mon64 = m0 + 65536
            /\ ret.adjusted <= 1

\* ------------------------------------------------------------------ C25
\* C25: for a channel that starts a band of get_seq(mode), element 0 of its
\* correlation row becomes (lag << 4) + (element 0 & 0xF) and element 2 is
\* decreased by 65536 exactly when it is positive; the row of a channel that
\* starts no band is left unchanged.
C25_ZeroLagFix ==
    (fn = "getAC_cc" /\ fpc = "return") =>
        LET starts == get_seq(arg.mode).band_start
            isStart == arg.ind \in {starts[k] : k \in 1..Len(starts)}
        IN  IF isStart
            THEN /\ ret[1] = arg.lag * 16 + (((arg.row[1] % 16) + 16) % 16)
                 /\ ret[2] = arg.row[2]
                 /\ ret[3] = IF arg.row[3] > 0 THEN arg.row[3] - 65536 ELSE arg.row[3]
            ELSE ret = arg.row

\* C25 witness: in mode 0x2A channel 2 starts a band: its row with a
\* negative first and a positive third element has been rewritten
C25_Witness ==
    /\ fn = "getAC_cc" /\ fpc = "return" /\ arg.mode = 42 /\ arg.ind = 2
    /\ arg.row = <<-1, 7, 1>> /\ arg.lag = 1
    /\ ret = <<31, 7, -65535>>


\* ------------------------------------------------------------------ C26
\* C26: every row staged by import_file carries the decoded raw stw plus
\* stw_correction(file name), whatever the file type; for a name with a stem
\* of eight hexadecimal digits that is raw + 2^32 * (leading digit).
C26_CorrectionOnEveryRow ==
    (fn = "import_stw" /\ fpc = "return" /\ Len(arg.stem) = 8 /\ IsHexString(arg.stem)) =>
        \A k \in 1..Len(ret.staged) :
            ret.staged[k] = Stw(arg.raw.hi + 65536 * HexVal(arg.stem[1]), arg.raw.lo)


\* ------------------------------------------------------------------ C28
\* C28: for an SHK file import_file stages the rows of the channels returned
\* by getSHK: the import of a well-formed SHK file does not end in an
\* exception of the decoder, it reaches the store with its batch.
C28_ShkRowsStaged ==
    (pc \in {"done", "raised"} /\ file.ext = "shk"
        /\ Level0File_init(file, {"SHK"}) = "ok") =>
        /\ err # "TypeError"
        /\ connected


\* ------------------------------------------------------------------ C27
\* what one import on its own leaves in the table: the rows no staged row
\* matches, and the staged rows
SerialMerge(t, rows, staged) ==
    {r \in rows : \A f \in staged : ~MergeMatch(t, r, f)} \cup staged

\* the table after the import of session i has run alone on rows
AloneAfter(i, rows) ==
    IF sessions[i].pc = "done" THEN SerialMerge(xtbl.name, rows, sessions[i].foo)
    ELSE rows

StagedKeys(i) == {r.stw : r \in sessions[i].batch}

BothEnded == sessions # <<>> /\ \A i \in DOMAIN sessions : sessions[i].pc \in {"done", "raised"}

\* C27: when two concurrent imports into one table have staged disjoint sets
\* of stw, then whatever the interleaving of their steps the table ends as it
\* would after the two imports run one after the other, in either order.
C27_DisjointConcurrentSafe ==
    (BothEnded /\ StagedKeys(1) \cap StagedKeys(2) = {}) =>
        /\ shared = AloneAfter(2, AloneAfter(1, xtbl.before))
        /\ shared = AloneAfter(1, AloneAfter(2, xtbl.before))

\* C27 witness: both imports have committed, their stw are disjoint, each
\* has replaced rows of the table, and each delete statement started before
\* the other import committed
C27_Witness ==
    /\ BothEnded /\ StagedKeys(1) \cap StagedKeys(2) = {}
    /\ \A i \in DOMAIN sessions :
         /\ sessions[i].pc = "done"
         /\ sessions[i].del # {}
         /\ sessions[i].snap = xtbl.before
    /\ shared # xtbl.before


====
